---- MODULE Spec2Model ----
(***************************************************************************)
(* A model of haraqafs: a file replicated over N volumes.                  *)
(*   New       opens one replica per volume, runs consensus() and, when    *)
(*             the replicas disagree, source() to repair them;             *)
(*   File.*    the gated operations of an open handle (file.go).           *)
(* Volume indices, and the indices of Go slices, are 0-based as in the     *)
(* source; a Go slice is a function on 0..len-1, except `sizes`, which is  *)
(* built by append and is a sequence read through At/InRange.              *)
(***************************************************************************)
EXTENDS Integers, Sequences, FiniteSets, TLC

\* ------------------------------------------------------------------ bounds
MaxVol == 3
MaxLen == 2
MaxTime == 2
\* the handle's callers, the calls they make in all, and the volumes and the content
\* length of the handles they share
NumCallers == 2
MaxCalls == 3
GateVol == 2
GateLen == 1
\* the volumes and the content length of a process that calls New twice
PoolVol == 2
PoolLen == 1

Bytes == {1, 2}

\* --------------------------------------------------- program constants
QFError == 0
QFWriteFirst == 1
QFWriteLast == 2
QFOrderFirst == 3
QFOrderLast == 4
QFLongest == 5
QFShortest == 6
QFShortestNonZero == 7
Policies == QFError..QFShortestNonZero

\* make([]byte, 1e6): the repair loop's chunk
BufSize == 1000000
\* the zero time.Time of `var sourceMod time.Time`; real modification times are later
ZeroTime == 0
\* a nil []byte (bytes.Equal(nil, x) holds exactly when x is empty)
NilBytes == <<>>

\* ------------------------------------------------------------ helpers
Max(a, b) == IF a > b THEN a ELSE b
Min(a, b) == IF a < b THEN a ELSE b

RECURSIVE SeqsUpTo(_)
SeqsUpTo(k) ==
    IF k = 0 THEN {<<>>}
    ELSE LET shorter == SeqsUpTo(k - 1)
         IN shorter \cup {Append(s, b) : s \in {t \in shorter : Len(t) = k - 1}, b \in Bytes}

Contents == SeqsUpTo(MaxLen)

RECURSIVE Zeros(_)
Zeros(k) == IF k <= 0 THEN <<>> ELSE <<0>> \o Zeros(k - 1)

\* Go's s[k] on a slice built by append; an index outside 0..len-1 panics
InRange(s, k) == k >= 0 /\ k < Len(s)
At(s, k) == s[k + 1]
SetAt(s, k, v) == [s EXCEPT ![k + 1] = v]

\* ------------------------------------------- the single-volume file (os.File)
\* (*os.File).ReadAt(buf, off): the bytes it returns (io.EOF when fewer than len(buf))
ReadAtBytes(data, off, buflen) ==
    IF off >= Len(data) THEN <<>>
    ELSE SubSeq(data, off + 1, Min(Len(data), off + buflen))

\* (*os.File).WriteAt / Write at the handle's offset: a write past the end leaves a hole of zeros
WriteAtData(data, off, b) ==
    LET base == IF off > Len(data) THEN data \o Zeros(off - Len(data)) ELSE data
        tail == IF off + Len(b) < Len(base) THEN SubSeq(base, off + Len(b) + 1, Len(base)) ELSE <<>>
    IN IF Len(b) = 0 THEN data ELSE SubSeq(base, 1, off) \o b \o tail

\* (*os.File).Truncate(size): cuts, or extends with zeros
TruncateData(data, size) ==
    IF size <= Len(data) THEN SubSeq(data, 1, size) ELSE data \o Zeros(size - Len(data))

AbsentFile == [st |-> "absent", data |-> <<>>]
NilHandle == [nil |-> TRUE, pos |-> 0, closed |-> FALSE]
OpenHandle(p) == [nil |-> FALSE, pos |-> p, closed |-> FALSE]

\* os.OpenFile(path, f.flags, f.perms): "rdwr" is the default os.O_RDWR, "creat"
\* WithCreateIfNotExist (os.O_RDWR|os.O_CREATE). An absent file opens only with "creat",
\* as a new empty file. (WithCreate, which also truncates every replica, is not modelled.)
Flags == {"rdwr", "creat"}
OpenFile(file, flag) ==
    IF file.st = "absent"
    THEN IF flag = "rdwr"
         THEN [ok |-> FALSE, file |-> file, handle |-> NilHandle]
         ELSE [ok |-> TRUE, file |-> [st |-> "file", data |-> <<>>], handle |-> OpenHandle(0)]
    ELSE [ok |-> TRUE, file |-> file, handle |-> OpenHandle(0)]

\* ------------------------------------------------------------ digests
\* binary.LittleEndian.PutUint64(b[:], uint64(size)): the 8 bytes of the size
RECURSIVE LEBytes(_, _)
LEBytes(v, k) == IF k = 0 THEN <<>> ELSE <<v % 256>> \o LEBytes(v \div 256, k - 1)

\* f.hashing.Reset(); io.Copy(f.hashing, file); f.hashing.Sum(nil): the caller's hash.Hash,
\* here a 16-bit polynomial hash (h*31 + b over the bytes, from 7), as 2 bytes
RECURSIVE HashFold(_, _)
HashFold(h, data) ==
    IF data = <<>> THEN h ELSE HashFold((h * 31 + Head(data)) % 65536, Tail(data))
Digest(data) == LET h == HashFold(7, data) IN <<h \div 256, h % 256>>

\* ------------------------------------------------------ source of truth
isSourceOfTruth(infoSize, infoModTime, qf, i, index, size, t) ==
    CASE qf = QFError -> FALSE
      [] qf = QFWriteFirst -> infoModTime < t \/ t = ZeroTime
      [] qf = QFWriteLast -> infoModTime > t
      [] qf = QFOrderFirst -> index < 0 \/ i < index
      [] qf = QFOrderLast -> i > index
      [] qf = QFLongest -> infoSize > size
      [] qf = QFShortest -> size < 0 \/ infoSize < size
      [] qf = QFShortestNonZero -> infoSize > 0 /\ infoSize < size
      [] OTHER -> FALSE

\* ------------------------------------------------------------ consensus
\* hashPool.Get() and the reslice to len(f.multi): the entries of the pooled backing
\* array come back as they were put; only a slice grown by append gets fresh nil entries
\* after the ones it held. pool = [arr: the backing array, len: the length it was put with].
FreshSlice(cap) == [arr |-> [k \in 0..(cap - 1) |-> NilBytes], len |-> 0]
EmptyPool == [arr |-> <<>>, len |-> 0]
\* hashPool.Get(): the pooled slice, or the pool's New, make([][]byte, 0, volumeMax)
PoolGet(pool, vmax) == IF pool = EmptyPool THEN FreshSlice(vmax) ELSE pool
GetHashes(pool, n) ==
    LET cap == Cardinality(DOMAIN pool.arr)
    IN IF cap < n
       THEN [k \in 0..(pool.len + n - 1) |-> IF k < pool.len THEN pool.arr[k] ELSE NilBytes]
       ELSE pool.arr

\* The scan of consensus(), `for i := len(f.multi) - 1; i >= 0; i--`, from replica i down.
\* s = [sourceIndex, sourceSize, sourceMod, sizes, hashes, multi]; modTimes[i] is what
\* Stat reports for replica i. (A directory never opens with O_RDWR, so foundDir stays false.)
RECURSIVE Scan(_, _, _, _, _)
Scan(i, s, disk, modTimes, f) ==
    IF i < 0 THEN s
    ELSE IF s.multi[i].nil THEN Scan(i - 1, s, disk, modTimes, f)
    ELSE
        LET data == disk[i].data
            size == Len(data)
            sel == isSourceOfTruth(size, modTimes[i], f.quorumFail, i,
                                   s.sourceIndex, s.sourceSize, s.sourceMod)
            s1 == [s EXCEPT !.sourceSize = IF sel THEN size ELSE @,
                            !.sourceMod = IF sel THEN modTimes[i] ELSE @,
                            !.sourceIndex = IF sel THEN i ELSE @,
                            !.sizes = Append(@, size)]
            pos == s.multi[i].pos
            s2 == IF size = 0 THEN s1
                  ELSE IF ~f.hashing
                  THEN [s1 EXCEPT !.hashes[i] = LEBytes(size, 8)]
                  \* io.Copy(f.hashing, f.multi[i]) reads from the handle's offset to the
                  \* end of the file and leaves the offset there
                  ELSE [s1 EXCEPT !.hashes[i] = Digest(ReadAtBytes(data, pos, size)),
                                  !.multi[i].pos = Max(pos, size)]
        IN Scan(i - 1, s2, disk, modTimes, f)

\* `for i := range hashes[:len(hashes)-1] { if !bytes.Equal(hashes[i], hashes[i+1]) ...`
AllEqual(hashes, n) == \A i \in 0..(n - 2) : hashes[i] = hashes[i + 1]

\* "try to find a quorum": hashMatches counts each digest from the last replica down; the
\* index at which a count reaches f.quorum, or -1
RECURSIVE FindQuorum(_, _, _, _)
FindQuorum(i, hashMatches, hashes, quorum) ==
    IF i < 0 THEN -1
    ELSE IF hashes[i] = NilBytes THEN FindQuorum(i - 1, hashMatches, hashes, quorum)
    ELSE
        LET h == hashes[i]
            c == (IF h \in DOMAIN hashMatches THEN hashMatches[h] ELSE 0) + 1
            m == [x \in DOMAIN hashMatches \cup {h} |-> IF x = h THEN c ELSE hashMatches[x]]
        IN IF c >= quorum THEN i ELSE FindQuorum(i - 1, m, hashes, quorum)

\* --------------------------------------------------------------- source
\* The copy loop of source(), `for sizes[i] < sizes[index]`: read a chunk of the canonical
\* replica at offset sizes[i], Write it at replica i's own file offset, add its length to
\* sizes[i]. A chunk of 0 bytes changes nothing the loop reads: the loop never ends.
RECURSIVE CopyLoop(_, _, _)
CopyLoop(s, i, index) ==
    IF ~(At(s.sizes, i) < At(s.sizes, index)) THEN s
    ELSE
        LET chunk == ReadAtBytes(s.disk[index].data, At(s.sizes, i), BufSize)
            n == Len(chunk)
            pos == s.multi[i].pos
        IN IF n = 0 THEN [s EXCEPT !.out = "hang"]
           ELSE CopyLoop([s EXCEPT !.disk[i].data = WriteAtData(@, pos, chunk),
                                   !.multi[i].pos = pos + n,
                                   !.sizes = SetAt(@, i, At(@, i) + n)],
                         i, index)

\* The body of `for i := range f.multi` in source() for one replica i.
\* s = [out, disk, multi, sizes]; out stays "ok" when the loop goes on to i+1.
SourceOne(s, i, index, hashes, f) ==
    IF i = index \/ hashes[i] = hashes[index] THEN s
    ELSE IF s.multi[i].nil THEN
        \* os.Create(f.paths[i]), then io.Copy(f.multi[i], f.multi[index]): from the
        \* canonical handle's file offset to its end
            LET src == s.disk[index].data
                from == s.multi[index].pos
                copied == ReadAtBytes(src, from, Len(src))
                n == Len(copied)
                s1 == [s EXCEPT !.disk[i] = [st |-> "file", data |-> copied],
                                !.multi[i] = OpenHandle(n),
                                !.multi[index].pos = Max(from, Len(src))]
            IN IF ~InRange(s.sizes, index) THEN [s1 EXCEPT !.out = "panic"]
               ELSE IF n # At(s.sizes, index) THEN [s1 EXCEPT !.out = "err_copy"]
               ELSE s1
    ELSE
        LET \* if !f.appendOnly { sizes[i] = 0; Truncate(0) }
            s1 == IF f.appendOnly THEN s
                  ELSE IF ~InRange(s.sizes, i) THEN [s EXCEPT !.out = "panic"]
                  ELSE [s EXCEPT !.sizes = SetAt(@, i, 0), !.disk[i].data = <<>>]
        IN IF s1.out # "ok" THEN s1
           ELSE IF ~InRange(s1.sizes, i) \/ ~InRange(s1.sizes, index) THEN [s1 EXCEPT !.out = "panic"]
           ELSE IF At(s1.sizes, i) > At(s1.sizes, index)
           THEN [s1 EXCEPT !.disk[i].data = TruncateData(@, At(s1.sizes, index))]
           ELSE CopyLoop(s1, i, index)

RECURSIVE SourceLoop(_, _, _, _, _)
SourceLoop(i, s, index, hashes, f) ==
    IF i >= f.n THEN s
    ELSE LET s1 == SourceOne(s, i, index, hashes, f)
         IN IF s1.out # "ok" THEN s1 ELSE SourceLoop(i + 1, s1, index, hashes, f)

\* source(isDir = false, index, hashes, sizes): [out, disk, multi, sizes, offset]
Source(index, hashes, sizes, disk, f) ==
    LET s0 == [out |-> "ok", disk |-> disk, multi |-> f.multi, sizes |-> sizes,
               offset |-> f.offset]
    IN IF f.appendOnly /\ ~InRange(sizes, index) THEN [s0 EXCEPT !.out = "panic"]
       ELSE SourceLoop(0,
                       [s0 EXCEPT !.offset = IF f.appendOnly THEN At(sizes, index) ELSE @],
                       index, hashes, f)

\* consensus() after its scan s: all equal, a quorum, the policy's choice, or no source.
\* [out, disk, multi, offset, pool, canon, path]: canon is the index handed to source(), -1
\* when source() is not called; path is the return taken: "equal" (allEqual), "quorum" (a
\* digest reached f.quorum), "policy" (no quorum: the policy's sourceIndex, or none). out: "ok" (nil error), "err_quorum" ("unable to reach quorum in
\* source"), "err_copy" (source's "copy failed ... short write"), "panic" (index out of range),
\* "hang" (the copy loop does not end). pool: the slice put back by the deferred Put.
Decide(s, f, disk) ==
    LET hashes == s.hashes
        put == [arr |-> hashes, len |-> f.n]
        q == FindQuorum(f.n - 1, <<>>, hashes, f.quorum)
        index == IF q >= 0 THEN q ELSE s.sourceIndex
        stay == [out |-> "ok", disk |-> disk, multi |-> s.multi, offset |-> f.offset,
                 pool |-> put, canon |-> -1, path |-> "equal"]
    IN IF AllEqual(hashes, f.n)
       THEN IF f.appendOnly /\ ~InRange(s.sizes, 0)
            THEN [stay EXCEPT !.out = "panic"]
            ELSE [stay EXCEPT !.offset = IF f.appendOnly THEN At(s.sizes, 0) ELSE @]
       ELSE IF q < 0 /\ s.sourceSize = -1
       THEN [stay EXCEPT !.out = "err_quorum", !.path = "policy"]
       ELSE CHOOSE c \in {[out |-> r.out, disk |-> r.disk, multi |-> r.multi,
                           offset |-> r.offset,
                           pool |-> IF r.out = "hang" THEN EmptyPool ELSE put,
                           canon |-> index,
                           path |-> IF q >= 0 THEN "quorum" ELSE "policy"] :
                          r \in {Source(index, hashes, s.sizes, disk, [f EXCEPT !.multi = s.multi])}} : TRUE

\* consensus()
Consensus(f, disk, pool, vmax, modTimes) ==
    IF f.n = 1 /\ ~f.multi[0].nil
    THEN [out |-> "ok", disk |-> disk, multi |-> f.multi, offset |-> f.offset,
          pool |-> pool, canon |-> -1, path |-> "single"]
    ELSE CHOOSE c \in {Decide(s, f, disk) :
                       s \in {Scan(f.n - 1,
                                   [sourceIndex |-> -1, sourceSize |-> -1, sourceMod |-> ZeroTime,
                                    sizes |-> <<>>, hashes |-> GetHashes(PoolGet(pool, vmax), f.n),
                                    multi |-> f.multi],
                                   disk, modTimes, f)}} : TRUE

\* ------------------------------------------------------------- the gate
\* f.lock = [tok: permits in the channel, closed]
\* `<-f.lock` on the buffered channel: a permit if one is there, else the zero value with
\* ok false if the channel is closed, else the receive blocks
Recv(lock) ==
    IF lock.tok > 0 THEN "permit" ELSE IF lock.closed THEN "closed" ELSE "block"
\* a receive that leaves the permit in the channel
TakenLeavesPermit(lock) == lock
\* the channel after a receive that got the permit
Taken(lock) == [lock EXCEPT !.tok = @ - 1]
\* a close(f.lock) after the permit was put back
FinalizedWithPermit(lock) == [lock EXCEPT !.closed = TRUE, !.tok = 1]
\* close(f.lock), by the Close that holds the permit
Finalized(lock) == [lock EXCEPT !.closed = TRUE]

\* ---------------------------------------------------------------- Close
\* an aggErrors that wraps a single error too
aggErrorsWrapsOne(errs) ==
    IF Len(errs) = 0 THEN [kind |-> "nil", errs |-> <<>>] ELSE [kind |-> "multiple", errs |-> errs]
\* aggErrors(errs)
aggErrors(errs) ==
    CASE Len(errs) = 0 -> [kind |-> "nil", errs |-> <<>>]
      [] Len(errs) = 1 -> [kind |-> "single", errs |-> errs]
      [] OTHER -> [kind |-> "multiple", errs |-> errs]

\* The loop of Close() over f.multi from replica i on: errs collects <<replica, error>> for
\* every Close that returns an error, os.ErrClosed ("closed") for a handle closed before,
\* or another error ("failed") for the replicas in fails; an os.File is closed after Close
\* whatever it returns.
RECURSIVE CloseLoop(_, _, _)
CloseLoop(i, c, fails) ==
    IF i >= Cardinality(DOMAIN c.multi) THEN c
    ELSE IF c.multi[i].nil THEN CloseLoop(i + 1, c, fails)
    ELSE
        LET e == IF c.multi[i].closed THEN "closed" ELSE IF i \in fails THEN "failed" ELSE "nil"
            c1 == [c EXCEPT !.multi[i].closed = TRUE,
                            !.closedErrs = IF e = "closed" THEN @ + 1 ELSE @,
                            !.errs = IF e = "nil" THEN @ ELSE Append(@, <<i, e>>)]
        IN CloseLoop(i + 1, c1, fails)

\* a Close() that finalizes only when no replica reports an error
CloseBodyNeedsNoError(multi, fails) ==
    LET c == CloseLoop(0, [multi |-> multi, closedErrs |-> 0, errs |-> <<>>], fails)
        final == Len(c.errs) = 0
    IN [multi |-> c.multi,
        final |-> final,
        raw |-> c.errs,
        ret |-> IF final
                THEN IF Cardinality(DOMAIN multi) = c.closedErrs
                     THEN [kind |-> "ErrClosed", errs |-> <<>>]
                     ELSE [kind |-> "nil", errs |-> <<>>]
                ELSE aggErrors(c.errs)]

\* Close() from the point where it holds the permit: [multi, final, raw, ret]. final: the
\* gate is closed (close(f.lock)); otherwise the permit goes back. raw: errs, the errors
\* of the replicas. ret: the returned error.
CloseBody(multi, fails) ==
    LET c == CloseLoop(0, [multi |-> multi, closedErrs |-> 0, errs |-> <<>>], fails)
        final == Len(c.errs) = 0 \/ Len(c.errs) = c.closedErrs
    IN [multi |-> c.multi,
        final |-> final,
        raw |-> c.errs,
        ret |-> IF final
                THEN IF Cardinality(DOMAIN multi) = c.closedErrs
                     THEN [kind |-> "ErrClosed", errs |-> <<>>]
                     ELSE [kind |-> "nil", errs |-> <<>>]
                ELSE aggErrors(c.errs)]

\* A call of Close() on a handle nobody else uses (New's "best effort close"): the File
\* afterwards
CloseNow(f, fails) ==
    IF Cardinality(DOMAIN f.multi) = 0 \/ Recv(f.lock) # "permit" THEN f
    ELSE LET c == CloseBody(f.multi, fails)
         IN [f EXCEPT !.multi = c.multi,
                      !.lock = IF c.final THEN Finalized(Taken(@)) ELSE @]

\* ------------------------------------------------- the gated operations
\* The error of one call on replica handle h: a nil *os.File gives os.ErrInvalid, a closed
\* one os.ErrClosed ("closed"), a replica in fails an I/O error ("EIO")
IOErr(h, i, fails) ==
    IF h.nil THEN "ErrInvalid"
    ELSE IF h.closed THEN "closed"
    ELSE IF i \in fails THEN "EIO"
    ELSE "nil"

\* what an operation returns: [err, n, data, errs]; err "nil" is the nil error
Ret(err, n, data) == [err |-> err, n |-> n, data |-> data, errs |-> <<>>]

\* ReadAt's loop, `for i := len(f.multi) - 1; i >= 0; i--`, from replica i down
RECURSIVE ReadLoop(_, _, _, _, _, _)
ReadLoop(i, multi, d, off, lenb, fails) ==
    LET e == IOErr(multi[i], i, fails)
        bytes == IF e = "nil" THEN ReadAtBytes(d[i].data, off, lenb) ELSE <<>>
        n == Len(bytes)
        err == IF e # "nil" THEN e ELSE IF n < lenb THEN "EOF" ELSE "nil"
    IN IF err = "nil" \/ n > 0 \/ i = 0 THEN Ret(err, n, bytes)
       ELSE ReadLoop(i - 1, multi, d, off, lenb, fails)

\* ReadAt(b, off) from the point where it holds the permit: [ret, offset]
ReadAtBody(g, d, off, lenb, fails) ==
    LET r == ReadLoop(Cardinality(DOMAIN g.multi) - 1, g.multi, d, off, lenb, fails)
    IN [ret |-> r, offset |-> g.offset + r.n]

\* a WriteAt loop that goes on to the next replica after one failed
RECURSIVE WriteLoopGoesOn(_, _, _, _, _, _, _)
WriteLoopGoesOn(i, multi, d, b, off, fails, part) ==
    IF i >= Cardinality(DOMAIN multi) THEN [disk |-> d, err |-> "nil"]
    ELSE LET e == IOErr(multi[i], i, fails)
             rest == WriteLoopGoesOn(i + 1, multi,
                                     IF e = "nil" THEN [d EXCEPT ![i].data = WriteAtData(@, off, b)]
                                     ELSE d, b, off, fails, part)
         IN IF e = "nil" THEN rest ELSE [rest EXCEPT !.err = e]
\* WriteAt's loop over f.multi from replica i on: [disk, err]; the first replica that fails
\* ends it, the replicas before it keep the write. A replica in fails has written the first
\* part bytes of b (fewer than len(b)) when its WriteAt returns the error.
RECURSIVE WriteLoop(_, _, _, _, _, _, _)
WriteLoop(i, multi, d, b, off, fails, part) ==
    IF i >= Cardinality(DOMAIN multi) THEN [disk |-> d, err |-> "nil"]
    ELSE LET e == IOErr(multi[i], i, fails)
         IN IF e = "EIO"
            THEN [disk |-> [d EXCEPT ![i].data = WriteAtData(@, off, SubSeq(b, 1, part))],
                  err |-> e]
            ELSE IF e # "nil" THEN [disk |-> d, err |-> e]
            ELSE WriteLoop(i + 1, multi,
                           [d EXCEPT ![i].data = WriteAtData(@, off, b)], b, off, fails, part)

\* WriteAt(b, offset) from the point where it holds the permit: [ret, disk, offset]
WriteAtBody(g, d, b, off, fails, part) ==
    LET w == WriteLoop(0, g.multi, d, b, off, fails, part)
    IN IF w.err # "nil"
       THEN [ret |-> Ret(w.err, 0, <<>>), disk |-> w.disk, offset |-> g.offset]
       ELSE [ret |-> Ret("nil", Len(b), <<>>), disk |-> w.disk, offset |-> g.offset + Len(b)]

\* Truncate's loop over f.multi from replica i on: [disk, err]
RECURSIVE TruncateLoop(_, _, _, _, _)
TruncateLoop(i, multi, d, size, fails) ==
    IF i >= Cardinality(DOMAIN multi) THEN [disk |-> d, err |-> "nil"]
    ELSE LET e == IOErr(multi[i], i, fails)
         IN IF e # "nil" THEN [disk |-> d, err |-> e]
            ELSE TruncateLoop(i + 1, multi,
                              [d EXCEPT ![i].data = TruncateData(@, size)], size, fails)

\* Chmod's undo, `for j := range f.multi[:i] { _ = f.multi[j].Chmod(m) }`, with the mode m
\* that Stat reports for the last replica
ChmodUndo(i, multi, pm, fails) ==
    LET last == Cardinality(DOMAIN multi) - 1
    IN IF i > 0 /\ IOErr(multi[last], last, fails) = "nil"
       THEN [j \in DOMAIN pm |->
                IF j < i /\ IOErr(multi[j], j, fails) = "nil"
                THEN [pm[j] EXCEPT !.mode = pm[last].mode] ELSE pm[j]]
       ELSE pm

\* Chmod's loop over f.multi from replica i on: [perm, err]
RECURSIVE ChmodLoop(_, _, _, _, _)
ChmodLoop(i, multi, pm, mode, fails) ==
    IF i >= Cardinality(DOMAIN multi) THEN [perm |-> pm, err |-> "nil"]
    ELSE LET e == IOErr(multi[i], i, fails)
         IN IF e # "nil" THEN [perm |-> ChmodUndo(i, multi, pm, fails), err |-> e]
            ELSE ChmodLoop(i + 1, multi, [pm EXCEPT ![i].mode = mode], mode, fails)

\* Chown's loop over f.multi from replica i on: [perm, err]; nothing is undone
RECURSIVE ChownLoop(_, _, _, _, _)
ChownLoop(i, multi, pm, uid, fails) ==
    IF i >= Cardinality(DOMAIN multi) THEN [perm |-> pm, err |-> "nil"]
    ELSE LET e == IOErr(multi[i], i, fails)
         IN IF e # "nil" THEN [perm |-> pm, err |-> e]
            ELSE ChownLoop(i + 1, multi, [pm EXCEPT ![i].owner = uid], uid, fails)

\* ReadDir(n): f.multi[0].ReadDir(n); a regular file is not a directory
ReadDirBody(g, fails) ==
    LET e == IOErr(g.multi[0], 0, fails)
    IN Ret(IF e = "nil" THEN "ENOTDIR" ELSE e, 0, <<>>)

\* ------------------------------------------------------------------ New
\* WithQuorumFail is not among the options of the repository's files; the specification
\* lists a quorum-fail policy among the options of construction.
WithQuorumFail(f, qf) == [f EXCEPT !.quorumFail = qf]

\* `if f.quorum == 0 { f.quorum = 1 + len(f.volumes)/2 }`
DefaultQuorum(quorum, n) == IF quorum = 0 THEN 1 + (n \div 2) ELSE quorum

\* a test that lets New go on with one opened volume fewer than the quorum
QuorumNotOpenedOffByOne(n, nerrs, quorum) == n - nerrs < quorum - 1
\* `if len(f.volumes)-len(errs) < f.quorum`
QuorumNotOpened(n, nerrs, quorum) == n - nerrs < quorum

NoFile ==
    [n |-> 0, quorum |-> 0, flag |-> "rdwr", hashing |-> FALSE, appendOnly |-> FALSE,
     quorumFail |-> QFError, multi |-> <<>>, offset |-> 0,
     lock |-> [tok |-> 0, closed |-> FALSE]]

\* New after the opens, `if len(f.volumes)-len(errs) < f.quorum` on: c is consensus()'s
\* result for f1
NewReturn(c, f1, disk1, pool, opened) ==
    LET nerrs == f1.n - Cardinality(opened)
        f2 == [f1 EXCEPT !.multi = c.multi, !.offset = c.offset]
    IN IF QuorumNotOpened(f1.n, nerrs, f1.quorum)
       THEN [disk |-> disk1, pool |-> pool, canon |-> -1, path |-> "open", opened |-> opened,
             ret |-> [out |-> "err_open", handle |-> FALSE, err |-> nerrs > 0],
             f |-> CloseNow(f1, {})]
       ELSE [disk |-> c.disk, pool |-> c.pool, canon |-> c.canon, path |-> c.path,
             opened |-> opened,
             ret |-> [out |-> c.out, handle |-> c.out = "ok",
                      err |-> c.out \notin {"ok", "panic", "hang"}],
             f |-> IF c.out \in {"ok", "panic", "hang"} THEN f2 ELSE CloseNow(f2, {})]

\* New(name, opts...) over the volumes of disk: [ret, f, disk, pool, canon, path, opened].
\* o = [volumes, quorum, flag, hashing, appendOnly, qf]: the options passed (quorum 0:
\* WithQuorum not passed; volumes FALSE: WithVolumes not passed, name is the one file).
\* ret = [out, handle, err]: what New returns, (handle, err) as non-nil flags; out names
\* the path: "ok", "err_open", "err_quorum", "err_copy", and "panic" / "hang"
\* when New does not return.
NewResult(o, disk, pool, vmax, modTimes) ==
    LET n == Cardinality(DOMAIN disk)
        opens == [i \in DOMAIN disk |-> OpenFile(disk[i], o.flag)]
        disk1 == [i \in DOMAIN disk |-> opens[i].file]
        opened == {i \in DOMAIN disk : opens[i].ok}
        f0 == [WithQuorumFail(NoFile, o.qf) EXCEPT
                  !.n = n, !.quorum = o.quorum, !.flag = o.flag, !.hashing = o.hashing,
                  !.appendOnly = o.appendOnly,
                  !.multi = [i \in DOMAIN disk |-> opens[i].handle],
                  !.lock = [tok |-> 1, closed |-> FALSE]]
    IN IF ~o.volumes
       THEN \* the single file: an open error is returned as it is, no consensus
            [disk |-> disk1, pool |-> pool, canon |-> -1, path |-> "single",
             opened |-> opened, f |-> f0,
             ret |-> IF opened = {} THEN [out |-> "err_open", handle |-> FALSE, err |-> TRUE]
                     ELSE [out |-> "ok", handle |-> TRUE, err |-> FALSE]]
       ELSE CHOOSE r \in
              {NewReturn(IF QuorumNotOpened(n, n - Cardinality(opn), f1.quorum)
                         THEN [out |-> "none"]
                         ELSE Consensus(f1, d1, pool, vmax, modTimes),
                         f1, d1, pool, opn) :
               f1 \in {[f0 EXCEPT !.quorum = DefaultQuorum(@, n)]}, d1 \in {disk1}, opn \in {opened}} : TRUE

\* ---------------------------------------------------------------- state
VARIABLES
    disk,       \* disk[i]: the file of the logical name on volume i, [st, data]
    volumeMax,  \* the package's volumeMax
    hashPool,   \* the slice hashPool holds, [arr, len]; EmptyPool when it holds none
    f,          \* the *File of the last New
    ret,        \* what the last New returned, [out, handle, err]; out "none" before New
    call,       \* the last New's inputs and findings: [o, modTimes, pre, opened, canon,
                \* path, gen]; gen counts the calls of New
    perm,       \* perm[i]: the mode and the owner of the file on volume i, [mode, owner]
    pc,         \* pc[c]: where caller c is in its call: "idle", "recv", "hold", "release"
    op,         \* op[c]: the call of caller c, [name, b, off, k]
    rv,         \* rv[c]: what the last call of caller c returns, [err, n, data, errs, raw]
    calls       \* the number of calls made on the handle

vars == <<disk, volumeMax, hashPool, f, ret, call, perm, pc, op, rv, calls>>

NVol == Cardinality(DOMAIN disk)
Called == ret.out # "none"
\* New returned (it neither panicked nor hangs in the copy loop)
Returned == ret.out \notin {"none", "panic", "hang"}

\* WithVolumes: `if len(volumes) > volumeMax { volumeMax = len(volumes) }`
WithVolumesMax(vmax, n) == IF n > vmax THEN n ELSE vmax

Files == {AbsentFile} \cup {[st |-> "file", data |-> c] : c \in Contents}
Options(n) ==
    [volumes : IF n = 1 THEN BOOLEAN ELSE {TRUE},
     quorum : 0..(n + 1),
     flag : Flags,
     hashing : BOOLEAN,
     appendOnly : BOOLEAN,
     qf : Policies]
\* Stat's modification times; only WriteFirst and WriteLast read them
ModTimes(n, qf) ==
    IF qf \in {QFWriteFirst, QFWriteLast} THEN [0..(n - 1) -> 1..MaxTime] ELSE {[i \in 0..(n - 1) |-> 1]}

NoRet == [out |-> "none", handle |-> FALSE, err |-> FALSE]
NoCall == [o |-> [volumes |-> TRUE, quorum |-> 0, flag |-> "rdwr", hashing |-> FALSE,
                  appendOnly |-> FALSE, qf |-> QFError],
           modTimes |-> <<>>, pre |-> <<>>, opened |-> {}, canon |-> -1, path |-> "none",
           gen |-> 0]

\* the callers (goroutines) that share the handle
Callers == 1..NumCallers
NoPerm == [mode |-> 0, owner |-> 0]
NoOp == [name |-> "none", b |-> <<>>, off |-> 0, k |-> 0]
NoRv == [err |-> "none", n |-> 0, data |-> <<>>, errs |-> <<>>, raw |-> <<>>]

\* The first New of a process, over every state of 1..MaxVol volumes
Init ==
    /\ \E n \in 1..MaxVol : disk \in [0..(n - 1) -> Files]
    /\ volumeMax = 1
    /\ hashPool = EmptyPool
    /\ f = NoFile
    /\ ret = NoRet
    /\ call = NoCall
    /\ perm = [i \in DOMAIN disk |-> NoPerm]
    /\ pc = [c \in Callers |-> "idle"]
    /\ op = [c \in Callers |-> NoOp]
    /\ rv = [c \in Callers |-> NoRv]
    /\ calls = 0

New ==
    /\ ret.out = "none"
    /\ \E o \in Options(Cardinality(DOMAIN disk)) :
       \E modTimes \in ModTimes(Cardinality(DOMAIN disk), o.qf) :
          LET n == Cardinality(DOMAIN disk)
              vmax == IF o.volumes THEN WithVolumesMax(volumeMax, n) ELSE volumeMax
          IN \E r \in {NewResult(o, disk, hashPool, vmax, modTimes)} :
             /\ volumeMax' = vmax
             /\ disk' = r.disk
             /\ hashPool' = r.pool
             /\ f' = r.f
             /\ ret' = r.ret
             /\ call' = [o |-> o, modTimes |-> modTimes, pre |-> disk, opened |-> r.opened,
                         canon |-> r.canon, path |-> r.path, gen |-> 1]
    /\ UNCHANGED <<perm, pc, op, rv, calls>>

Next == New

Spec == Init /\ [][Next]_vars

\* ------------------------------------------------- New after New
\* One process that calls New a second time over the same volumes, by then in whatever
\* state they are: 1..PoolVol volumes whose files are absent or hold up to PoolLen bytes.
PoolFiles == {AbsentFile} \cup {[st |-> "file", data |-> c] : c \in SeqsUpTo(PoolLen)}
PoolOptions ==
    [volumes : {TRUE}, quorum : 0..2, flag : Flags, hashing : BOOLEAN,
     appendOnly : {FALSE}, qf : {QFError, QFLongest}]

InitPool ==
    /\ \E n \in 1..PoolVol : disk \in [0..(n - 1) -> PoolFiles]
    /\ volumeMax = 1
    /\ hashPool = EmptyPool
    /\ f = NoFile
    /\ ret = NoRet
    /\ call = NoCall
    /\ perm = [i \in DOMAIN disk |-> NoPerm]
    /\ pc = [c \in Callers |-> "idle"]
    /\ op = [c \in Callers |-> NoOp]
    /\ rv = [c \in Callers |-> NoRv]
    /\ calls = 0

\* New number k over the volumes in state d; hashPool.Get() returns the slice the pool
\* holds, or, when the garbage collector has dropped it, a new one
NewOver(k, d) ==
    \E o \in PoolOptions : \E pool \in {hashPool, EmptyPool} :
       LET n == Cardinality(DOMAIN d)
           vmax == WithVolumesMax(volumeMax, n)
           modTimes == [i \in 0..(n - 1) |-> 1]
       IN \E r \in {NewResult(o, d, pool, vmax, modTimes)} :
          /\ volumeMax' = vmax
          /\ disk' = r.disk
          /\ hashPool' = r.pool
          /\ f' = r.f
          /\ ret' = r.ret
          /\ call' = [o |-> o, modTimes |-> modTimes, pre |-> d, opened |-> r.opened,
                      canon |-> r.canon, path |-> r.path, gen |-> k]
          /\ UNCHANGED <<perm, pc, op, rv, calls>>

NewFirst == call.gen = 0 /\ NewOver(1, disk)

NewAgain ==
    /\ call.gen = 1 /\ Returned
    /\ \E d \in [DOMAIN disk -> PoolFiles] : NewOver(2, d)

NextPool == NewFirst \/ NewAgain

SpecPool == InitPool /\ [][NextPool]_vars

\* ------------------------------------------------- the calls on a handle
\* The handles the callers share: New's handle over 1..GateVol volumes whose files are
\* absent or hold up to GateLen bytes
GateFiles == {AbsentFile} \cup {[st |-> "file", data |-> c] : c \in SeqsUpTo(GateLen)}
GateOptions ==
    [volumes : {TRUE}, quorum : {1}, flag : {"rdwr"}, hashing : {FALSE},
     appendOnly : {TRUE}, qf : {QFError}]

InitGate ==
    /\ \E n \in 1..GateVol : \E d \in [0..(n - 1) -> GateFiles] : \E o \in GateOptions :
          LET vmax == WithVolumesMax(1, n)
              modTimes == [i \in 0..(n - 1) |-> 1]
          IN \E r \in {NewResult(o, d, EmptyPool, vmax, modTimes)} :
             /\ r.ret.handle
             /\ volumeMax = vmax
             /\ disk = r.disk
             /\ hashPool = r.pool
             /\ f = r.f
             /\ ret = r.ret
             /\ call = [o |-> o, modTimes |-> modTimes, pre |-> d, opened |-> r.opened,
                        canon |-> r.canon, path |-> r.path, gen |-> 1]
    /\ perm = [i \in DOMAIN disk |-> NoPerm]
    /\ pc = [c \in Callers |-> "idle"]
    /\ op = [c \in Callers |-> NoOp]
    /\ rv = [c \in Callers |-> NoRv]
    /\ calls = 0

\* the calls a caller makes; Read and Write pass f.offset as it is when they are called
OpsAt(offset) ==
    {[name |-> "ReadAt", b |-> <<>>, off |-> o, k |-> 1] : o \in 0..1}
    \cup {[name |-> "Read", b |-> <<>>, off |-> offset, k |-> 1]}
    \cup {[name |-> "WriteAt", b |-> <<2>>, off |-> o, k |-> 0] : o \in 0..1}
    \cup {[name |-> "WriteAt", b |-> <<2, 1>>, off |-> 0, k |-> 0]}
    \cup {[name |-> "Write", b |-> <<2>>, off |-> offset, k |-> 0]}
    \cup {[name |-> "Truncate", b |-> <<>>, off |-> 0, k |-> z] : z \in 0..1}
    \cup {[name |-> nm, b |-> <<>>, off |-> 0, k |-> 1] : nm \in {"Chmod", "Chown"}}
    \cup {[name |-> nm, b |-> <<>>, off |-> 0, k |-> 0] : nm \in {"ReadDir", "Close"}}

\* caller c enters an operation: `if f == nil || len(f.multi) == 0 || f.lock == nil`
Call(c) ==
    /\ ret.handle /\ pc[c] = "idle" /\ calls < MaxCalls
    /\ \E o \in OpsAt(f.offset) :
          /\ op' = [op EXCEPT ![c] = o]
          /\ IF Cardinality(DOMAIN f.multi) = 0
             THEN /\ rv' = [rv EXCEPT ![c] = [NoRv EXCEPT !.err = "ErrInvalid"]]
                  /\ pc' = pc
             ELSE /\ rv' = [rv EXCEPT ![c] = NoRv]
                  /\ pc' = [pc EXCEPT ![c] = "recv"]
    /\ calls' = calls + 1
    /\ UNCHANGED <<disk, volumeMax, hashPool, f, ret, call, perm>>

\* `if _, ok := <-f.lock; !ok { return os.ErrClosed }`
Acquire(c) ==
    /\ pc[c] = "recv"
    /\ Recv(f.lock) # "block"
    /\ IF Recv(f.lock) = "permit"
       THEN /\ f' = [f EXCEPT !.lock = Taken(@)]
            /\ pc' = [pc EXCEPT ![c] = "hold"]
            /\ rv' = rv
       ELSE /\ f' = f
            /\ pc' = [pc EXCEPT ![c] = "idle"]
            /\ rv' = [rv EXCEPT ![c] = [NoRv EXCEPT !.err = "ErrClosed"]]
    /\ UNCHANGED <<disk, volumeMax, hashPool, ret, call, perm, op, calls>>

\* the body of op[c], run while c holds the permit: [disk, perm, f, rv, final]
BodyResult(o, fails, part) ==
    LET same == [disk |-> disk, perm |-> perm, f |-> f, rv |-> NoRv, final |-> FALSE]
        withRaw(r) == [err |-> r.err, n |-> r.n, data |-> r.data, errs |-> r.errs, raw |-> <<>>]
    IN CASE o.name \in {"Read", "ReadAt"} ->
              LET r == ReadAtBody(f, disk, o.off, o.k, fails)
              IN [same EXCEPT !.f.offset = r.offset, !.rv = withRaw(r.ret)]
         [] o.name \in {"Write", "WriteAt"} ->
              LET r == WriteAtBody(f, disk, o.b, o.off, fails, part)
              IN [same EXCEPT !.disk = r.disk, !.f.offset = r.offset, !.rv = withRaw(r.ret)]
         [] o.name = "Truncate" ->
              LET r == TruncateLoop(0, f.multi, disk, o.k, fails)
              IN [same EXCEPT !.disk = r.disk, !.rv = withRaw(Ret(r.err, 0, <<>>))]
         [] o.name = "Chmod" ->
              LET r == ChmodLoop(0, f.multi, perm, o.k, fails)
              IN [same EXCEPT !.perm = r.perm, !.rv = withRaw(Ret(r.err, 0, <<>>))]
         [] o.name = "Chown" ->
              LET r == ChownLoop(0, f.multi, perm, o.k, fails)
              IN [same EXCEPT !.perm = r.perm, !.rv = withRaw(Ret(r.err, 0, <<>>))]
         [] o.name = "ReadDir" ->
              [same EXCEPT !.rv = withRaw(ReadDirBody(f, fails))]
         [] o.name = "Close" ->
              LET r == CloseBody(f.multi, fails)
              IN [same EXCEPT !.f.multi = r.multi,
                              !.f.lock = IF r.final THEN Finalized(@) ELSE @,
                              !.final = r.final,
                              !.rv = [err |-> r.ret.kind, n |-> 0, data |-> <<>>,
                                      errs |-> r.ret.errs, raw |-> r.raw]]

\* caller c, holding the permit, runs its operation on the replicas; the replicas in
\* fails fail their I/O, a write after part bytes. A Close that finalizes returns without putting the permit back.
Body(c) ==
    /\ pc[c] = "hold"
    /\ \E fails \in SUBSET DOMAIN disk : \E part \in 0..Max(0, Len(op[c].b) - 1) :
       \E r \in {BodyResult(op[c], fails, part)} :
          /\ disk' = r.disk
          /\ perm' = r.perm
          /\ f' = r.f
          /\ rv' = [rv EXCEPT ![c] = r.rv]
          /\ pc' = [pc EXCEPT ![c] = IF r.final THEN "idle" ELSE "release"]
    /\ UNCHANGED <<volumeMax, hashPool, ret, call, op, calls>>

\* a return that leaves the permit with the caller
ReleaseKeepsPermit(c) ==
    /\ pc[c] = "release"
    /\ pc' = [pc EXCEPT ![c] = "idle"]
    /\ UNCHANGED <<disk, volumeMax, hashPool, f, ret, call, perm, op, rv, calls>>
\* the deferred `f.lock <- struct{}{}`: it blocks while the channel is full and panics on
\* a closed channel
Release(c) ==
    /\ pc[c] = "release"
    /\ f.lock.closed \/ f.lock.tok = 0
    /\ IF f.lock.closed
       THEN /\ pc' = [pc EXCEPT ![c] = "panic"]
            /\ f' = f
       ELSE /\ pc' = [pc EXCEPT ![c] = "idle"]
            /\ f' = [f EXCEPT !.lock.tok = @ + 1]
    /\ UNCHANGED <<disk, volumeMax, hashPool, ret, call, perm, op, rv, calls>>

NextGate == \E c \in Callers : Call(c) \/ Acquire(c) \/ Body(c) \/ Release(c)

SpecGate == InitGate /\ [][NextGate]_vars

\* ------------------------------------------------------- claims about New
\* the content replica i had when consensus() read it
PreData(i) == call.pre[i].data
\* The digests tell the opened replicas apart: with no hash.Hash the digest is the size, and
\* two different contents of one size count as equal
DigestsTellApart ==
    call.o.hashing \/ \A i, j \in call.opened : Len(PreData(i)) = Len(PreData(j)) => PreData(i) = PreData(j)
\* The canonical replica: the one handed to source(), else (no repair) the last opened
Canonical ==
    IF call.canon >= 0 THEN call.canon
    ELSE CHOOSE i \in call.opened : \A j \in call.opened : j <= i

\* C1 (as claimed): whenever New returns a handle, every volume holds exactly the bytes of
\* the canonical replica (for contents the digest tells apart; a volume without the file
\* reads as empty).
C1_ReplicasEqualCanonical ==
    (ret.handle /\ DigestsTellApart) =>
        \A i \in DOMAIN disk : disk[i].data = disk[Canonical].data

\* pre is two replicas with the non-empty content a and one with b, all three present
TwoAndOne(a, b) ==
    /\ NVol = 3 /\ a # b /\ a # <<>>
    /\ \A i \in DOMAIN disk : call.pre[i].st = "file"
    /\ \E k \in DOMAIN disk : PreData(k) = b /\ \A i \in DOMAIN disk \ {k} : PreData(i) = a

\* C2 (as claimed): with 3 volumes and quorum 2, two replicas holding A and one holding B,
\* wherever B is and whatever the two lengths, New succeeds and leaves all three equal to A.
C2_MajorityRepairsOdd ==
    \A a, b \in Contents :
        (Called /\ call.o.volumes /\ f.quorum = 2 /\ DigestsTellApart /\ TwoAndOne(a, b)) =>
            ret.handle /\ \A i \in DOMAIN disk : disk[i].data = a

QuorumInRange == call.o.volumes /\ f.quorum >= 1 /\ f.quorum <= NVol

\* C3 (as claimed): for 1 <= q <= N, New succeeds if and only if at least q volumes open.
C3_SucceedsIffQuorumOpened ==
    (Returned /\ QuorumInRange) => (ret.handle <=> Cardinality(call.opened) >= f.quorum)

\* C3 (amended): for 1 <= q <= N, New succeeds only if at least q volumes open; when fewer
\* than q open it returns an error (the open errors) and no handle.
C3_SuccessNeedsQuorumOpened ==
    (Called /\ QuorumInRange) =>
        /\ ret.handle => Cardinality(call.opened) >= f.quorum
        /\ Cardinality(call.opened) < f.quorum => ret.out = "err_open" /\ ret.err /\ ~ret.handle

\* C3's case: New was refused with some, but fewer than q, volumes open
C3_Witness ==
    /\ Called /\ QuorumInRange
    /\ call.opened # {} /\ Cardinality(call.opened) < f.quorum
    /\ ret.out = "err_open"

\* what policy qf names among the opened replicas
PolicyNames(qf, c) ==
    LET among == call.opened
        size(i) == Len(PreData(i))
        mod(i) == call.modTimes[i]
    IN CASE qf = QFOrderFirst -> c \in among /\ \A j \in among : c <= j
         [] qf = QFOrderLast -> c \in among /\ \A j \in among : c >= j
         [] qf = QFLongest -> c \in among /\ \A j \in among : size(c) >= size(j)
         [] qf = QFShortest -> c \in among /\ \A j \in among : size(c) <= size(j)
         [] qf = QFWriteFirst -> c \in among /\ \A j \in among : mod(c) <= mod(j)
         [] qf = QFWriteLast -> c \in among /\ \A j \in among : mod(c) >= mod(j)
         [] qf = QFShortestNonZero ->
                (\E j \in among : size(j) > 0) =>
                    c \in among /\ size(c) > 0 /\ \A j \in among : size(j) > 0 => size(c) <= size(j)
         [] OTHER -> TRUE

\* both volumes held the file, with different contents, when New number gen was called
DifferingPair(gen) ==
    /\ call.gen = gen /\ call.o.volumes /\ NVol = 2
    /\ \A i \in DOMAIN disk : call.pre[i].st = "file"
    /\ PreData(0) # PreData(1)
    /\ DigestsTellApart

\* C4 (as claimed): with 2 volumes, quorum 2 and policy Error, a New over two replicas of
\* differing content (that the digests tell apart) returns the quorum error and no handle,
\* and leaves both replicas as they were.
C4_DifferingPairRefused ==
    (\E g \in 1..2 : DifferingPair(g) /\ f.quorum = 2 /\ call.o.qf = QFError) =>
        ret.out = "err_quorum" /\ ~ret.handle /\ disk = call.pre

\* C4 for the first New of a process
C4_FirstNewRefused ==
    (DifferingPair(1) /\ f.quorum = 2 /\ call.o.qf = QFError) =>
        ret.out = "err_quorum" /\ ~ret.handle /\ disk = call.pre

\* C5 (as claimed): when the replicas disagree and no digest reaches the quorum, the repair
\* source is the replica the policy names among the opened ones.
C5_PolicySelectsSource ==
    (Called /\ call.path = "policy") => PolicyNames(call.o.qf, call.canon)

\* C5 without ShortestNonZero: the other six selecting policies do name the source
C5_OtherPoliciesSelect ==
    (Called /\ call.path = "policy" /\ call.o.qf # QFShortestNonZero) =>
        PolicyNames(call.o.qf, call.canon)

\* C6 (as claimed): a handle opened append-only has its cursor at the size of the canonical
\* replica, for any number of volumes, with or without repair.
C6_AppendCursorAtSize ==
    (ret.handle /\ call.o.volumes /\ call.o.appendOnly) => f.offset = Len(disk[Canonical].data)

\* ------------------------------------------------ claims about the gate
InOperation(c) == pc[c] \in {"hold", "release"}
IsClose(c) == op[c].name = "Close"
\* the last call of c was refused at the gate of a finalized handle
Refused(c) == pc[c] = "idle" /\ rv[c].err = "ErrClosed" /\ rv[c].raw = <<>>
\* the errors of the replicas, in a Close's errs, that are not os.ErrClosed
NotClosedErr(e) == e[2] # "closed"
OtherErrs(raw) == SelectSeq(raw, NotClosedErr)
\* the last call of c is a Close that returned without finalizing
CloseNotFinal(c) == IsClose(c) /\ rv[c].err \in {"single", "multiple"}

\* C7: once a Close has closed the gate, no caller is inside an operation, a caller at
\* the gate (one that waited there before the Close as well) is not blocked, and every
\* step leaves the replicas, their handles and the cursor as they are and returns
\* os.ErrClosed to the caller that takes it, a second Close included.
C7_ClosedHandleRefuses ==
    /\ [](f.lock.closed =>
            /\ \A c \in Callers : ~InOperation(c) /\ pc[c] # "panic"
            /\ Recv(f.lock) = "closed")
    /\ [][f.lock.closed =>
            /\ disk' = disk /\ perm' = perm /\ f' = f
            /\ \A c \in Callers :
                  (pc[c] = "recv" /\ pc'[c] # "recv") =>
                      pc'[c] = "idle" /\ rv'[c] = [NoRv EXCEPT !.err = "ErrClosed"]]_vars

\* C7's case: after the finalizing Close of one caller, a Write and a second Close of the
\* other were refused
C7_Witness ==
    /\ f.lock.closed
    /\ \E c, d \in Callers :
          /\ c # d /\ IsClose(c) /\ rv[c].err = "nil" /\ pc[c] = "idle"
          /\ IsClose(d) /\ Refused(d) /\ calls = MaxCalls

\* C8: at most one caller is between its receive from f.lock and its send to it (or its
\* close of it), and then the channel holds no permit.
C8_OneOperationAtATime ==
    /\ Cardinality({c \in Callers : InOperation(c)}) <= 1
    /\ (\E c \in Callers : InOperation(c)) => f.lock.tok = 0

\* C8's case: one caller is writing to the replicas while another waits at the gate
C8_Witness ==
    \E c, d \in Callers :
        pc[c] = "hold" /\ op[c].name = "WriteAt" /\ pc[d] = "recv" /\ op[d].name = "Truncate"

\* C9: a Close in which a replica fails to close for another reason than os.ErrClosed
\* leaves the gate open and puts the permit back, so that the next receive gets it; a
\* Close in which no replica does closes the gate.
C9_FailedCloseCanBeRetried ==
    [][\A c \in Callers :
          /\ (pc[c] = "hold" /\ IsClose(c) /\ pc'[c] # "hold") =>
                IF OtherErrs(rv'[c].raw) # <<>>
                THEN ~f'.lock.closed /\ pc'[c] = "release"
                ELSE f'.lock.closed /\ pc'[c] = "idle"
          /\ (pc[c] = "release" /\ pc'[c] # "release") =>
                pc'[c] = "idle" /\ Recv(f'.lock) = "permit"]_vars

\* C9's case: a Close failed, and a later Close, whose replicas all report os.ErrClosed,
\* finalized the handle
C9_Witness ==
    /\ f.lock.closed
    /\ \E c, d \in Callers :
          /\ c # d /\ CloseNotFinal(c) /\ pc[c] = "idle"
          /\ IsClose(d) /\ rv[d].raw # <<>> /\ OtherErrs(rv[d].raw) = <<>>

CloseFinal(c) ==
    /\ IsClose(c) /\ pc[c] = "idle"
    /\ rv[c].err \in {"nil", "ErrClosed"} /\ ~Refused(c)
\* the replica slots of the handle that are not nil
OpenedSlots == {i \in DOMAIN f.multi : ~f.multi[i].nil}
\* the Close of c found every replica handle closed already (each reported os.ErrClosed)
ClosedNothing(c) == Len(rv[c].raw) = Cardinality(OpenedSlots)

\* C11 (as claimed): a Close that finalizes the handle returns os.ErrClosed exactly when
\* every replica handle was closed before the call, and nil when it closed at least one,
\* also for a handle with nil replica slots.
C11_FinalCloseTellsWork ==
    \A c \in Callers : CloseFinal(c) => (rv[c].err = "ErrClosed" <=> ClosedNothing(c))

\* C11 for the handles without nil slots
C11_FullHandleTellsWork ==
    \A c \in Callers :
        (CloseFinal(c) /\ OpenedSlots = DOMAIN f.multi) =>
            (rv[c].err = "ErrClosed" <=> ClosedNothing(c))

\* ------------------------------------------ claims about Write and Read
IsWrite(c) == op[c].name \in {"Write", "WriteAt"}
\* replica j after the whole of op[c].b was written to it at op[c].off
Written(c, j) == WriteAtData(disk[j].data, op[c].off, op[c].b)

\* C12: a Write or WriteAt that returns an error returns 0 bytes and leaves the cursor as
\* it is, and there is a first failing replica i: the replicas before i hold the new
\* bytes, the replicas after i are as they were, replica i holds fewer than len(b) of the
\* new bytes; one that returns no error has written
\* every replica in full, returns len(b) and moves the cursor on by len(b).
C12_WriteStopsAtFirstFailure ==
    [][\A c \in Callers :
          (pc[c] = "hold" /\ IsWrite(c) /\ pc'[c] # "hold") =>
              IF rv'[c].err = "nil"
              THEN /\ \A j \in DOMAIN disk : disk'[j].data = Written(c, j)
                   /\ rv'[c].n = Len(op[c].b)
                   /\ f'.offset = f.offset + Len(op[c].b)
              ELSE /\ rv'[c].n = 0
                   /\ f'.offset = f.offset
                   /\ \E i \in DOMAIN disk :
                         /\ \A j \in DOMAIN disk : j < i => disk'[j].data = Written(c, j)
                         /\ \A j \in DOMAIN disk : j > i => disk'[j] = disk[j]
                         /\ \E p \in 0..(Len(op[c].b) - 1) :
                               disk'[i].data =
                                   WriteAtData(disk[i].data, op[c].off, SubSeq(op[c].b, 1, p))]_vars

\* C12's case: a WriteAt of 2 bytes failed on the second of two replicas after 1 byte; the
\* first replica holds both bytes
C12_Witness ==
    \E c \in Callers :
        /\ pc[c] = "release" /\ op[c].name = "WriteAt" /\ op[c].b = <<2, 1>>
        /\ rv[c].err = "EIO" /\ rv[c].n = 0 /\ NVol = 2
        /\ disk[0].data = <<2, 1>> /\ disk[1].data = <<2>>

\* the step in which caller c runs the body of its operation
BodyStep(c) == pc[c] = "hold" /\ pc'[c] # "hold"

\* C13 (as claimed): Read moves the cursor on by exactly the number of bytes it returns,
\* and ReadAt leaves the cursor where it is, whatever it returns.
C13_OnlyReadMovesCursor ==
    [][\A c \in Callers :
          /\ (BodyStep(c) /\ op[c].name = "Read") => f'.offset = f.offset + rv'[c].n
          /\ (BodyStep(c) /\ op[c].name = "ReadAt") => f'.offset = f.offset]_vars

\* C13 for Read alone
C13_ReadMovesCursor ==
    [][\A c \in Callers :
          (BodyStep(c) /\ op[c].name = "Read") => f'.offset = f.offset + rv'[c].n]_vars

\* ------------------------------------------------ claims about repair
\* New called source(), with replica call.canon as the canonical one
Repaired == Called /\ call.o.volumes /\ call.canon >= 0
\* the volumes whose replica handle was nil when source() was called
NilSlots == DOMAIN disk \ call.opened

\* C14 (as claimed): when New has returned from a repair, every replica whose handle was
\* nil exists and holds the whole canonical content, however many there are and with or
\* without a hash.
C14_NilReplicasRepaired ==
    (Repaired /\ Returned) =>
        \A i \in NilSlots : disk[i].st = "file" /\ disk[i].data = PreData(call.canon)

\* C14 (as claimed), its last part: a handle that New returns has no nil replica slot
C14_NoNilSlot == ret.handle => \A i \in DOMAIN f.multi : ~f.multi[i].nil

\* C14 for a single nil replica that follows the canonical one, without a hash
C14_OneNilReplicaRepaired ==
    (Repaired /\ Returned /\ ~call.o.hashing /\ call.opened = {0} /\ NVol = 2) =>
        /\ ret.handle /\ ~f.multi[1].nil
        /\ disk[1].st = "file" /\ disk[1].data = PreData(0)

\* what append-only repair is to leave of a replica that held d, for the canonical content a
AppendRepaired(d, a) ==
    IF Len(d) > Len(a) THEN SubSeq(d, 1, Len(a))
    ELSE d \o SubSeq(a, Len(d) + 1, Len(a))

\* C15 (as claimed): when New has returned from an append-only repair, every replica that
\* was open and is not the canonical one is cut to the canonical size if it was longer,
\* and otherwise holds its old bytes followed by the canonical bytes from its old size on.
C15_AppendRepairKeepsPrefix ==
    (Repaired /\ Returned /\ call.o.appendOnly) =>
        \A i \in call.opened \ {call.canon} :
            disk[i].data = AppendRepaired(PreData(i), PreData(call.canon))

\* C16 (as claimed): the second New of a process returns what a New with an empty digest pool
\* returns for the same options over the same replicas: the same result, the same canonical
\* replica and the same replica contents.
C16_OutcomeIgnoresEarlierOpens ==
    (call.gen = 2 /\ Returned) =>
        \E r \in {NewResult(call.o, call.pre, EmptyPool, volumeMax, call.modTimes)} :
            ret = r.ret /\ call.canon = r.canon /\ disk = r.disk

\* C17 (as claimed): every New that was called has returned, with a handle or with an error:
\* no call is left in the copy loop of source(), and none ends in a panic.
C17_NewTerminates == Called => Returned

\* C17 for the copy loop alone
C17_CopyLoopEnds == Called => ret.out # "hang"

\* caller c's last operation is a Write whose body has run and succeeded
WriteDone(c) ==
    op[c].name = "Write" /\ pc[c] \in {"release", "idle"} /\ rv[c].err = "nil"

\* C18 (as claimed): two Writes of two callers that both succeeded have landed at different
\* offsets: the cursor only grows, so two Writes at the same offset were called at the same
\* cursor value, before the body of either had run.
C18_WritesLandApart ==
    \A c1, c2 \in Callers :
        (c1 # c2 /\ WriteDone(c1) /\ WriteDone(c2)) => op[c1].off # op[c2].off

\* C18, its last sentence: the offset a Write writes at is the cursor at the time its body runs
C18_WriteUsesSerializedCursor ==
    [][\A c \in Callers : (BodyStep(c) /\ op[c].name = "Write") => op[c].off = f.offset]_vars

\* C19 (as claimed): a New that has returned has returned a handle and no error, or no handle
\* and an error; and when it returned no handle, every replica it had opened is closed.
C19_HandleOrErrorAndClosed ==
    Returned =>
        /\ ret.handle # ret.err
        /\ ~ret.handle => \A i \in call.opened : f.multi[i].closed

\* C19, its second half: a New that returns no handle has closed every replica it opened
C19_FailedNewClosesReplicas ==
    (Returned /\ ~ret.handle) => \A i \in call.opened : f.multi[i].closed

\* caller c returns from an operation it held the permit in
ReturnStep(c) == InOperation(c) /\ pc'[c] \notin {"hold", "release"}

\* C20: the gate never holds more than one permit and no caller has sent on the closed
\* gate; and a caller that returns from an operation it held the permit in leaves the permit
\* in the open gate, unless it is a Close that returns nil or os.ErrClosed, which leaves
\* the gate closed and empty.
C20_GateDiscipline ==
    /\ [](f.lock.tok <= 1 /\ \A c \in Callers : pc[c] # "panic")
    /\ [][\A c \in Callers :
            ReturnStep(c) =>
                \/ pc'[c] = "idle" /\ f'.lock.tok = 1 /\ ~f'.lock.closed
                \/ /\ pc'[c] = "idle" /\ IsClose(c) /\ rv'[c].err \in {"nil", "ErrClosed"}
                   /\ f'.lock.closed /\ f'.lock.tok = 0]_vars

\* a Write has returned with the permit put back, a Close has failed and its retry has
\* finalized the handle: the gate is closed and empty
C20_Witness ==
    /\ f.lock.closed /\ f.lock.tok = 0
    /\ \E c1, c2 \in Callers :
          /\ c1 # c2
          /\ CloseFinal(c1) /\ rv[c1].raw # <<>>
          /\ pc[c2] = "idle" /\ IsWrite(c2) /\ rv[c2].err = "nil"

====
